---------------------------- MODULE Spec2Model ----------------------------
(***************************************************************************)
(* A model of src/main.py: basketballs (Basketball) shot three times each  *)
(* by a Generation, and a Solver that breeds the next Generation from the  *)
(* winner's genes.                                                         *)
(*                                                                         *)
(* Numbers.  The program computes in floating point; the model computes in *)
(* fixed point.  Lengths are in 1/Scale metre (Scale = 10 * UNIT, a tenth  *)
(* of a pixel), velocities in 1/Scale m/s, forces in 1/Scale N, a fitness  *)
(* in 1/Scale.  Every product or quotient is rounded to the nearest unit   *)
(* (Div), as a float operation rounds to the nearest float.                *)
(*                                                                         *)
(* Randomness.  random.randint and random.random read and advance the      *)
(* process-wide generator of Python's random module, which is seeded when  *)
(* the module is imported.  The model keeps that generator's state in rng, *)
(* draws the seed in Init, and abstracts the generator (a Mersenne Twister *)
(* in the library) by a small linear congruential generator.               *)
(***************************************************************************)
EXTENDS Integers, Sequences, FiniteSets, TLC

VARIABLES
    generation,       \* Solver.generation: [population, last_gene]
    generation_n,     \* Solver.generation_n
    rng,              \* state of the random module's generator
    MUTATION_CHANCE,  \* the module constant, in percent
    is_done,          \* what the last Generation.update returned
    log,              \* the lines printed by Solver.update: <<n, highest fitness>>
    calls,            \* number of operations performed so far
    call_no,          \* ordinal of the last Generation.update call within its Generation
    gene_src,         \* per ball and slot, where next_generation took <<direction, strength>> from
    op,               \* the last operation performed
    before            \* the population before the last operation

vars == <<generation, generation_n, rng, MUTATION_CHANCE, is_done, log,
          calls, call_no, gene_src, op, before>>

---------------------------------------------------------------------------
(* Bounds of the model. *)

\* Seeds 0..MaxSeed of the random generator are explored.
MaxSeed == 19

\* Solver.update is called at most MaxCalls times.
MaxCalls == 2530

\* The Agent-level specification performs at most MaxOps operations.
MaxOps == 3

---------------------------------------------------------------------------
(* Module constants of src/main.py. *)

WINDOW_WIDTH == 720
WINDOW_HEIGHT == 720
UNIT == 100
FPS == 60
SHOT_DURATION == 7

\* Solver(5)
Population == 5

\* Fixed-point resolution: units per metre.
Scale == 10 * UNIT

\* 9.81 m/s^2
GRAVITY == (981 * Scale) \div 100

\* AIR_FRICTION = 0.008, in thousandths
AIR_FRICTION == 8

\* Basketball.mass = 0.625, in thousandths; invmass = 1 / mass = 1.6, in tenths
mass == 625
invmass == (10 * 1000) \div mass

\* Basketball.radius = 0.121 * 4
radius == (121 * 4 * Scale) \div 1000

\* Basketball.elasticity = 0.8, in tenths
elasticity == 8

\* Bounds of randint for a direction and for a strength.
DirMin == 0
DirMax == 359
StrengthMin == 65
StrengthMax == 2300

\* Number of shots (genes) of a ball.
Shots == 3

\* Chance, in percent, that a slot inherits from the winner.
InheritChance == 75

---------------------------------------------------------------------------
(* Arithmetic. *)

Abs(a) == IF a < 0 THEN -a ELSE a

Max(a, b) == IF a >= b THEN a ELSE b

\* a / b rounded to the nearest integer, halves away from zero (b > 0).
Div(a, b) == IF a >= 0 THEN (2 * a + b) \div (2 * b)
                       ELSE -((2 * (-a) + b) \div (2 * b))

RECURSIVE SqrtIter(_, _)
SqrtIter(q, x) ==
    LET y == (x + q \div x) \div 2
    IN  IF y >= x THEN x ELSE SqrtIter(q, y)

\* Vector2.length(): sqrt(x*x + y*y), rounded to the nearest unit.
Length(v) ==
    LET q == v[1] * v[1] + v[2] * v[2]
        s == IF q = 0 THEN 0 ELSE SqrtIter(q, Abs(v[1]) + Abs(v[2]))
    IN  IF q - s * s > s THEN s + 1 ELSE s

VAdd(a, b) == <<a[1] + b[1], a[2] + b[2]>>
VSub(a, b) == <<a[1] - b[1], a[2] - b[2]>>

\* v * dt with dt = HZ = 1 / FPS
TimesDt(v) == <<Div(v[1], FPS), Div(v[2], FPS)>>

Zero == <<0, 0>>

\* sin of 0..90 degrees, times 1000
SinTable ==
    << 0, 17, 35, 52, 70, 87, 105, 122, 139, 156, 174, 191, 208,
       225, 242, 259, 276, 292, 309, 326, 342, 358, 375, 391, 407, 423,
       438, 454, 469, 485, 500, 515, 530, 545, 559, 574, 588, 602, 616,
       629, 643, 656, 669, 682, 695, 707, 719, 731, 743, 755, 766, 777,
       788, 799, 809, 819, 829, 839, 848, 857, 866, 875, 883, 891, 899,
       906, 914, 921, 927, 934, 940, 946, 951, 956, 961, 966, 970, 974,
       978, 982, 985, 988, 990, 993, 995, 996, 998, 999, 999, 1000, 1000 >>

Sin(d) ==
    LET a == d % 360
        s == IF a <= 90 THEN SinTable[a + 1]
             ELSE IF a <= 180 THEN SinTable[180 - a + 1]
             ELSE IF a <= 270 THEN -SinTable[a - 180 + 1]
             ELSE -SinTable[360 - a + 1]
    IN  (s * Scale) \div 1000

Cos(d) == Sin(d + 90)

\* Vector2(1, 0).rotate(d): the unit vector, in 1/Scale
rotate(d) == <<Cos(d), Sin(d)>>

\* Vector2.normalize(), in 1/Scale; the caller checks that v is not zero
normalize(v) ==
    LET len == Length(v)
    IN  <<Div(v[1] * Scale, len), Div(v[2] * Scale, len)>>

\* Vector2.reflect(n) for a unit normal n: v - 2 (v . n) n
reflect(v, n) ==
    LET dot == Div(v[1] * n[1] + v[2] * n[2], Scale)
    IN  <<v[1] - Div(2 * dot * n[1], Scale), v[2] - Div(2 * dot * n[2], Scale)>>

---------------------------------------------------------------------------
(* The random module. *)

\* The generator's next state.
RngNext(r) == (75 * r + 74) % 65537

\* The state a seed gives.
RngSeed(seed) == (7919 * seed + 1) % 65537

\* randint with the lower bound left out of the width of the range
randint_no_offset(r, a, b) == a + (r % (b + 1))

\* randint(a, b) read from generator state r: an integer of a..b
randint(r, a, b) == a + (r % (b - a + 1))

\* random() < percent / 100 read from generator state r; random() is in [0, 1)
RandomBelow(r, percent) == r * 100 < percent * 65537

---------------------------------------------------------------------------
(* Basketball *)

\* Basketball.__init__(position)
Basketball(position) ==
    [position |-> position, velocity |-> Zero, force |-> Zero,
     gene_dir |-> <<>>, gene_strength |-> <<>>, gene_i |-> 0]

RECURSIVE DrawGenes(_, _, _, _)
DrawGenes(n, r, dirs, strengths) ==
    IF n = 0
    THEN [rng |-> r, gene_dir |-> dirs, gene_strength |-> strengths]
    ELSE LET r1 == RngNext(r)
             r2 == RngNext(r1)
         IN  DrawGenes(n - 1, r2,
                       Append(dirs, randint(r1, DirMin, DirMax)),
                       Append(strengths, randint(r2, StrengthMin, StrengthMax)))

\* Basketball.create_genes(): the ball and the generator after it
create_genes(ball, r) ==
    LET g == DrawGenes(Shots, r, <<>>, <<>>)
    IN  [ball |-> [ball EXCEPT !.gene_i = 0,
                               !.gene_dir = g.gene_dir,
                               !.gene_strength = g.gene_strength],
         rng |-> g.rng]

\* The force of a gene: Vector2(1, 0).rotate(direction) * strength
GeneForce(direction, strength) ==
    <<rotate(direction)[1] * strength, rotate(direction)[2] * strength>>

\* apply_gene that clears the pending force once the genes are used up
apply_gene_clearing(ball) ==
    IF ball.gene_i = Len(ball.gene_dir)
    THEN [ball EXCEPT !.force = Zero]
    ELSE [ball EXCEPT
            !.force = GeneForce(ball.gene_dir[ball.gene_i + 1],
                                ball.gene_strength[ball.gene_i + 1]),
            !.gene_i = @ + 1]

\* Basketball.apply_gene()
apply_gene(ball) ==
    IF ball.gene_i = Len(ball.gene_dir)
    THEN ball
    ELSE [ball EXCEPT
            !.force = GeneForce(ball.gene_dir[ball.gene_i + 1],
                                ball.gene_strength[ball.gene_i + 1]),
            !.gene_i = @ + 1]

\* The target of Basketball.fitness: Vector2(5.85, 2.6)
Target == <<(585 * Scale) \div 100, (26 * Scale) \div 10>>

\* fitness without the clamp of the distance at 7
fitness_unclamped(ball) ==
    Div(7 * Scale - Length(VSub(ball.position, Target)), 7)

\* Basketball.fitness
fitness(ball) ==
    LET d == Length(VSub(ball.position, Target))
        c == IF d > 7 * Scale THEN 7 * Scale ELSE d
    IN  Div(7 * Scale - c, 7)

\* The hoop of Basketball.update: Vector2(max(5.3, position.x), 3.2)
Net(position) == <<Max((53 * Scale) \div 10, position[1]), (32 * Scale) \div 10>>

\* A bounce that flips the velocity and does not damp it
BounceUndamped(c, hit) == IF hit THEN -c ELSE c

\* A bounce that damps the velocity and keeps its sign
BounceNoFlip(c, hit) == IF hit THEN Div(c * elasticity, 10) ELSE c

\* velocity.x *= -self.elasticity, when the predicted position crosses a wall
Bounce(c, hit) == IF hit THEN Div(-(c * elasticity), 10) ELSE c

\* normalize() raises ValueError on a zero vector: the ball sits on the hoop's centre
UpdateRaises(ball) ==
    LET acceleration == <<Div(ball.force[1] * invmass, 10),
                          Div(ball.force[2] * invmass, 10) + GRAVITY>>
        v1 == VAdd(ball.velocity, TimesDt(acceleration))
        future_vel == TimesDt(v1)
        net == Net(ball.position)
        dist == Length(VSub(net, VAdd(ball.position, future_vel)))
    IN  /\ dist <= radius + (3 * Scale) \div 10
        /\ net = ball.position

\* Basketball.update without the reset of the force
BallUpdateKeepsForce(ball) ==
    LET acceleration == <<Div(ball.force[1] * invmass, 10),
                          Div(ball.force[2] * invmass, 10) + GRAVITY>>
        v1 == VAdd(ball.velocity, TimesDt(acceleration))
        future_vel == TimesDt(v1)
        px == ball.position[1]
        py == ball.position[2]
        hitx == \/ px + future_vel[1] - radius < 0
                \/ px + future_vel[1] + radius > (WINDOW_WIDTH * Scale) \div UNIT
        hity == \/ py + future_vel[2] - radius < 0
                \/ py + future_vel[2] + radius > (WINDOW_HEIGHT * Scale) \div UNIT
        v2 == <<Bounce(v1[1], hitx), Bounce(v1[2], hity)>>
        net == Net(ball.position)
        dist == Length(VSub(net, VAdd(ball.position, future_vel)))
        radii == radius + (3 * Scale) \div 10
        v3 == IF dist <= radii
              THEN LET normal == normalize(VSub(net, ball.position))
                       r == reflect(v2, normal)
                   IN  <<Div(r[1] * elasticity, 10), Div(r[2] * elasticity, 10)>>
              ELSE v2
        v4 == <<Div(v3[1] * (1000 - AIR_FRICTION), 1000),
                Div(v3[2] * (1000 - AIR_FRICTION), 1000)>>
    IN  [ball EXCEPT !.velocity = v4,
                     !.position = VAdd(ball.position, TimesDt(v4))]

\* Basketball.update(dt) with dt = HZ
BallUpdate(ball) ==
    LET acceleration == <<Div(ball.force[1] * invmass, 10),
                          Div(ball.force[2] * invmass, 10) + GRAVITY>>
        v1 == VAdd(ball.velocity, TimesDt(acceleration))
        future_vel == TimesDt(v1)
        px == ball.position[1]
        py == ball.position[2]
        hitx == \/ px + future_vel[1] - radius < 0
                \/ px + future_vel[1] + radius > (WINDOW_WIDTH * Scale) \div UNIT
        hity == \/ py + future_vel[2] - radius < 0
                \/ py + future_vel[2] + radius > (WINDOW_HEIGHT * Scale) \div UNIT
        v2 == <<Bounce(v1[1], hitx), Bounce(v1[2], hity)>>
        net == Net(ball.position)
        dist == Length(VSub(net, VAdd(ball.position, future_vel)))
        radii == radius + (3 * Scale) \div 10
        v3 == IF dist <= radii
              THEN LET normal == normalize(VSub(net, ball.position))
                       r == reflect(v2, normal)
                   IN  <<Div(r[1] * elasticity, 10), Div(r[2] * elasticity, 10)>>
              ELSE v2
        v4 == <<Div(v3[1] * (1000 - AIR_FRICTION), 1000),
                Div(v3[2] * (1000 - AIR_FRICTION), 1000)>>
    IN  [ball EXCEPT !.velocity = v4,
                     !.position = VAdd(ball.position, TimesDt(v4)),
                     !.force = Zero]

---------------------------------------------------------------------------
(* Generation *)

\* The launch position: Vector2(50 / UNIT, 650 / UNIT)
Launch == <<(50 * Scale) \div UNIT, (650 * Scale) \div UNIT>>

RECURSIVE CreateAllGenes(_, _, _)
\* for ball in self.population: ball.create_genes()
CreateAllGenes(balls, i, r) ==
    IF i > Len(balls)
    THEN [population |-> balls, rng |-> r]
    ELSE LET c == create_genes(balls[i], r)
         IN  CreateAllGenes([balls EXCEPT ![i] = c.ball], i + 1, c.rng)

\* Only the first ball of the population applies its gene
ApplyFirstGene(balls) ==
    [i \in 1..Len(balls) |-> IF i = 1 THEN apply_gene(balls[i]) ELSE balls[i]]

\* for ball in self.population: ball.apply_gene()
ApplyAllGenes(balls) == [i \in 1..Len(balls) |-> apply_gene(balls[i])]

\* Every ball updated twice in one call
UpdateAllTwice(balls) ==
    [i \in 1..Len(balls) |-> BallUpdate(BallUpdate(balls[i]))]

\* for ball in self.population: ball.update(dt)
UpdateAll(balls) == [i \in 1..Len(balls) |-> BallUpdate(balls[i])]

\* A constructor that does not apply the first gene
GenerationNoFirstShot(n, r) ==
    LET created == CreateAllGenes([i \in 1..n |-> Basketball(Launch)], 1, r)
    IN  [generation |-> [population |-> created.population, last_gene |-> 0],
         rng |-> created.rng]

\* Generation.__init__(population): the Generation and the generator after it
Generation(n, r) ==
    LET created == CreateAllGenes([i \in 1..n |-> Basketball(Launch)], 1, r)
    IN  [generation |-> [population |-> ApplyAllGenes(created.population),
                         last_gene |-> 0],
         rng |-> created.rng]

RECURSIVE Insert(_, _)
\* s, sorted, with x inserted
Insert(s, x) ==
    IF s = <<>> THEN <<x>>
    ELSE IF x <= Head(s) THEN <<x>> \o s
    ELSE <<Head(s)>> \o Insert(Tail(s), x)

RECURSIVE sorted(_)
sorted(s) == IF s = <<>> THEN <<>> ELSE Insert(sorted(Tail(s)), Head(s))

\* The first of the sorted fitness values instead of the last
lowest_fitness(g) ==
    LET fitness_vals == [i \in 1..Len(g.population) |-> fitness(g.population[i])]
    IN  sorted(fitness_vals)[1]

\* Generation.highest_fitness(): list(sorted(fitness_vals))[-1]
highest_fitness(g) ==
    LET fitness_vals == [i \in 1..Len(g.population) |-> fitness(g.population[i])]
        s == sorted(fitness_vals)
    IN  s[Len(s)]

RECURSIVE FirstWith(_, _, _)
\* The index of the first ball from i on whose fitness is highest; 0 is None.
FirstWith(balls, highest, i) ==
    IF i > Len(balls) THEN 0
    ELSE IF fitness(balls[i]) = highest THEN i
    ELSE FirstWith(balls, highest, i + 1)

\* Generation.winner(), as the index of the ball in the population; 0 is None
winner(g) == FirstWith(g.population, highest_fitness(g), 1)

\* The threshold of a timer compared with >= instead of >
ShotTicksInclusive == FPS * SHOT_DURATION - 1

\* The shot timer's threshold: last_gene > FPS * SHOT_DURATION
ShotTicks == FPS * SHOT_DURATION

\* A ball of the population would raise in update
GenerationRaises(g) ==
    LET timer == g.last_gene + 1
        balls == IF timer > ShotTicks /\ g.population[1].gene_i # 3
                 THEN ApplyAllGenes(g.population) ELSE g.population
    IN  /\ ~(timer > ShotTicks /\ g.population[1].gene_i = 3)
        /\ \E i \in 1..Len(balls) : UpdateRaises(balls[i])

\* Generation.update with the balls stepped on the call that reports
\* completion as well.
GenerationUpdateStepsOnDone(g) ==
    LET timer == g.last_gene + 1
    IN  IF timer > ShotTicks
        THEN IF g.population[1].gene_i = 3
             THEN [generation |-> [population |-> UpdateAll(g.population),
                                   last_gene |-> 0],
                   is_done |-> TRUE]
             ELSE [generation |->
                      [population |-> UpdateAll(ApplyAllGenes(g.population)),
                       last_gene |-> 0],
                   is_done |-> FALSE]
        ELSE [generation |-> [population |-> UpdateAll(g.population),
                              last_gene |-> timer],
              is_done |-> FALSE]

\* Generation.update(dt): the Generation after the call and what it returns
GenerationUpdate(g) ==
    LET timer == g.last_gene + 1
    IN  IF timer > ShotTicks
        THEN IF g.population[1].gene_i = 3
             THEN [generation |-> [g EXCEPT !.last_gene = 0], is_done |-> TRUE]
             ELSE [generation |->
                      [population |-> UpdateAll(ApplyAllGenes(g.population)),
                       last_gene |-> 0],
                   is_done |-> FALSE]
        ELSE [generation |-> [population |-> UpdateAll(g.population),
                              last_gene |-> timer],
              is_done |-> FALSE]

---------------------------------------------------------------------------
(* Solver *)

\* A slot that inherits its strength from the winner's next slot
inherit_slot_shifted(w, i, r, chance) ==
    LET r1 == RngNext(r)
    IN  IF RandomBelow(r1, InheritChance)
        THEN LET r2 == RngNext(r1)
                 mutate_dir == RandomBelow(r2, chance)
                 r3 == IF mutate_dir THEN RngNext(r2) ELSE r2
                 r4 == RngNext(r3)
                 mutate_strength == RandomBelow(r4, chance)
                 r5 == IF mutate_strength THEN RngNext(r4) ELSE r4
             IN  [dir |-> IF mutate_dir THEN randint(r3, DirMin, DirMax)
                          ELSE w.gene_dir[i + 1],
                  strength |-> IF mutate_strength
                               THEN randint(r5, StrengthMin, StrengthMax)
                               ELSE w.gene_strength[((i + 1) % Shots) + 1],
                  src |-> <<IF mutate_dir THEN "random" ELSE "winner",
                            IF mutate_strength THEN "random" ELSE "winner">>,
                  rng |-> r5]
        ELSE LET r2 == RngNext(r1)
                 r3 == RngNext(r2)
             IN  [dir |-> randint(r2, DirMin, DirMax),
                  strength |-> randint(r3, StrengthMin, StrengthMax),
                  src |-> <<"random", "random">>,
                  rng |-> r3]

\* One slot of next_generation's loop: the gene of slot i (from 0), where it
\* came from, and the generator after it.
inherit_slot(w, i, r, chance) ==
    LET r1 == RngNext(r)
    IN  IF RandomBelow(r1, InheritChance)
        THEN LET r2 == RngNext(r1)
                 mutate_dir == RandomBelow(r2, chance)
                 r3 == IF mutate_dir THEN RngNext(r2) ELSE r2
                 r4 == RngNext(r3)
                 mutate_strength == RandomBelow(r4, chance)
                 r5 == IF mutate_strength THEN RngNext(r4) ELSE r4
             IN  [dir |-> IF mutate_dir THEN randint(r3, DirMin, DirMax)
                          ELSE w.gene_dir[i + 1],
                  strength |-> IF mutate_strength
                               THEN randint(r5, StrengthMin, StrengthMax)
                               ELSE w.gene_strength[i + 1],
                  src |-> <<IF mutate_dir THEN "random" ELSE "winner",
                            IF mutate_strength THEN "random" ELSE "winner">>,
                  rng |-> r5]
        ELSE LET r2 == RngNext(r1)
                 r3 == RngNext(r2)
             IN  [dir |-> randint(r2, DirMin, DirMax),
                  strength |-> randint(r3, StrengthMin, StrengthMax),
                  src |-> <<"random", "random">>,
                  rng |-> r3]

RECURSIVE InheritGenes(_, _, _, _, _)
\* for i in range(3): ... building gene_dir and gene_strength in acc
InheritGenes(w, i, r, chance, acc) ==
    IF i = Shots THEN [acc EXCEPT !.rng = r]
    ELSE LET s == inherit_slot(w, i, r, chance)
         IN  InheritGenes(w, i + 1, s.rng, chance,
                          [gene_dir |-> Append(acc.gene_dir, s.dir),
                           gene_strength |-> Append(acc.gene_strength, s.strength),
                           src |-> Append(acc.src, s.src),
                           rng |-> s.rng])

RECURSIVE OverwriteGenes(_, _, _, _, _, _)
\* for ball in self.generation.population: ... ball.gene_dir = gene_dir ...
OverwriteGenes(balls, w, i, r, chance, srcs) ==
    IF i > Len(balls)
    THEN [population |-> balls, rng |-> r, src |-> srcs]
    ELSE LET g == InheritGenes(w, 0, r, chance,
                      [gene_dir |-> <<>>, gene_strength |-> <<>>,
                       src |-> <<>>, rng |-> r])
         IN  OverwriteGenes([balls EXCEPT ![i].gene_dir = g.gene_dir,
                                          ![i].gene_strength = g.gene_strength],
                            w, i + 1, g.rng, chance, Append(srcs, g.src))

\* The ball next_generation inherits from: self.generation.winner()
WinnerBall(g) == g.population[winner(g)]

\* Solver.next_generation(): the new Generation, where its genes came from,
\* and the generator after it
next_generation(g, r, chance) ==
    LET w == WinnerBall(g)
        fresh == Generation(Len(g.population), r)
        o == OverwriteGenes(fresh.generation.population, w, 1, fresh.rng,
                            chance, <<>>)
    IN  [generation |-> [fresh.generation EXCEPT !.population = o.population],
         src |-> o.src,
         rng |-> o.rng]

\* Where the genes of a Generation that was not bred came from.
AllRandom(n) == [i \in 1..n |-> [k \in 1..Shots |-> <<"random", "random">>]]

\* The values MUTATION_CHANCE may be configured to, in percent.
MutationChances == {0, 50, 100}

\* Solver.__init__(population), with the generator seeded
SolverInit(seed, chance) ==
    LET g == Generation(Population, RngSeed(seed))
    IN  /\ generation = g.generation
        /\ generation_n = 0
        /\ rng = g.rng
        /\ MUTATION_CHANCE = chance
        /\ is_done = FALSE
        /\ log = <<>>
        /\ calls = 0
        /\ call_no = 0
        /\ gene_src = AllRandom(Population)
        /\ op = "init"
        /\ before = g.generation.population

\* Solver.update that logs after next_generation has replaced the Generation
SolverUpdateLogsAfter ==
    /\ calls < MaxCalls
    /\ ~GenerationRaises(generation)
    /\ LET u == GenerationUpdate(generation)
       IN  /\ is_done' = u.is_done
           /\ IF u.is_done
              THEN LET n == next_generation(u.generation, rng, MUTATION_CHANCE)
                   IN  /\ log' = Append(log, <<generation_n + 1,
                                               highest_fitness(n.generation)>>)
                       /\ generation' = n.generation
                       /\ generation_n' = generation_n + 1
                       /\ gene_src' = n.src
                       /\ rng' = n.rng
              ELSE /\ generation' = u.generation
                   /\ UNCHANGED <<log, generation_n, gene_src, rng>>
    /\ calls' = calls + 1
    /\ call_no' = IF is_done THEN 1 ELSE call_no + 1
    /\ op' = "Solver.update"
    /\ before' = generation.population
    /\ UNCHANGED MUTATION_CHANCE

\* Solver.update(dt) with dt = HZ
SolverUpdate ==
    /\ calls < MaxCalls
    /\ ~GenerationRaises(generation)
    /\ LET u == GenerationUpdate(generation)
       IN  /\ is_done' = u.is_done
           /\ IF u.is_done
              THEN LET n == next_generation(u.generation, rng, MUTATION_CHANCE)
                   IN  /\ log' = Append(log, <<generation_n,
                                               highest_fitness(u.generation)>>)
                       /\ generation' = n.generation
                       /\ generation_n' = generation_n + 1
                       /\ gene_src' = n.src
                       /\ rng' = n.rng
              ELSE /\ generation' = u.generation
                   /\ UNCHANGED <<log, generation_n, gene_src, rng>>
    /\ calls' = calls + 1
    /\ call_no' = IF is_done THEN 1 ELSE call_no + 1
    /\ op' = "Solver.update"
    /\ before' = generation.population
    /\ UNCHANGED MUTATION_CHANCE

Init == \E seed \in 0..MaxSeed : SolverInit(seed, 0)

Next == SolverUpdate

Spec == Init /\ [][Next]_vars

\* The program with MUTATION_CHANCE configured to any of MutationChances.
InitTunable == \E seed \in 0..MaxSeed, chance \in MutationChances :
                   SolverInit(seed, chance)

SpecTunable == InitTunable /\ [][Next]_vars

---------------------------------------------------------------------------
(* The methods of one Basketball, called in any order on a ball in any of *)
(* a set of states: ball 1 of a population of two.  Ball 2 is only read.  *)

\* Positions, in 1/Scale m: the launch position, the target, 1 m, 1.001 m
\* and 1.007 m right of the target, 7 m and 7.35 m left of it (outside the
\* window), and at rest on the floor.
TestPositions ==
    {Launch, Target, <<Target[1] + Scale, Target[2]>>,
     <<Target[1] + Scale + 1, Target[2]>>, <<Target[1] + Scale + 7, Target[2]>>,
     <<Target[1] - 7 * Scale, Target[2]>>,
     <<Target[1] - 7 * Scale - 350, Target[2]>>,
     <<3 * Scale, (WINDOW_HEIGHT * Scale) \div UNIT - radius>>}

\* Velocities, in 1/Scale m/s: at rest, falling, rising to the right.
TestVelocities == {Zero, <<0, 3 * Scale>>, <<2 * Scale, -4 * Scale>>}

\* Genes: <<directions, strengths>>
TestGenes == {<< <<90, 0, 225>>, <<1000, 65, 2300>> >>,
              << <<359, 270, 45>>, <<2300, 1500, 65>> >>}

TestBalls ==
    {[position |-> p, velocity |-> v, force |-> Zero,
      gene_dir |-> g[1], gene_strength |-> g[2], gene_i |-> k] :
        p \in TestPositions, v \in TestVelocities, g \in TestGenes,
        k \in 0..Shots}

InitAgent ==
    \E b1 \in TestBalls, p2 \in TestPositions :
        /\ generation = [population |-> <<b1, [b1 EXCEPT !.position = p2]>>,
                         last_gene |-> 0]
        /\ generation_n = 0
        /\ rng = RngSeed(0)
        /\ MUTATION_CHANCE = 0
        /\ is_done = FALSE
        /\ log = <<>>
        /\ calls = 0
        /\ call_no = 0
        /\ gene_src = AllRandom(2)
        /\ op = "init"
        /\ before = generation.population

AgentFrame == UNCHANGED <<generation_n, MUTATION_CHANCE, is_done, log,
                          call_no, gene_src>>

\* ball.apply_gene()
AgentApplyGene ==
    /\ calls < MaxOps
    /\ generation' = [generation EXCEPT !.population[1] = apply_gene(@)]
    /\ op' = "apply_gene"
    /\ before' = generation.population
    /\ calls' = calls + 1
    /\ UNCHANGED rng
    /\ AgentFrame

\* ball.update(HZ)
AgentUpdate ==
    /\ calls < MaxOps
    /\ ~UpdateRaises(generation.population[1])
    /\ generation' = [generation EXCEPT !.population[1] = BallUpdate(@)]
    /\ op' = "update"
    /\ before' = generation.population
    /\ calls' = calls + 1
    /\ UNCHANGED rng
    /\ AgentFrame

\* ball.create_genes()
AgentCreateGenes ==
    /\ calls < MaxOps
    /\ LET c == create_genes(generation.population[1], rng)
       IN  /\ generation' = [generation EXCEPT !.population[1] = c.ball]
           /\ rng' = c.rng
    /\ op' = "create_genes"
    /\ before' = generation.population
    /\ calls' = calls + 1
    /\ AgentFrame

NextAgent == AgentApplyGene \/ AgentUpdate \/ AgentCreateGenes

SpecAgent == InitAgent /\ [][NextAgent]_vars

---------------------------------------------------------------------------
(* Properties. *)

Balls == generation.population

BallIds == 1..Len(Balls)

\* The call of Generation.update that completes a Generation:
\* 3 * (FPS * SHOT_DURATION + 1)
CompletionCall == Shots * (FPS * SHOT_DURATION + 1)

\* The distance of a ball to the target, as fitness computes it.
TargetDistance(ball) == Length(VSub(ball.position, Target))

\* C1: counting the calls of Generation.update on one Generation from 1, the
\* call number 3 * (FPS * SHOT_DURATION + 1) = 1263 returns true and every
\* earlier call returns false.
C1_CompletionTiming ==
    call_no >= 1 => (is_done <=> call_no = CompletionCall)

\* The second Generation has just completed, on its call 1263.
C1_Witness ==
    /\ is_done
    /\ call_no = CompletionCall
    /\ generation_n = 2

\* C2: right after next_generation every new ball is at the launch position
\* with zero velocity, and its pending force is one that the genes it now
\* holds determine (none, or the force of its slot 0): nothing of the genes
\* the constructor drew is left in the state.
C2_RandomGenesOverwritten ==
    (op = "Solver.update" /\ is_done) =>
        \A i \in BallIds :
            /\ Balls[i].position = Launch
            /\ Balls[i].velocity = Zero
            /\ Balls[i].gene_i \in {0, 1}
            /\ Balls[i].force \in
                   {Zero, GeneForce(Balls[i].gene_dir[1], Balls[i].gene_strength[1])}

\* C4: all balls of the Generation have the same gene_i, so the first ball
\* has fired all its shots exactly when every ball has.
C4_Lockstep ==
    /\ \A i, j \in BallIds : Balls[i].gene_i = Balls[j].gene_i
    /\ (Balls[1].gene_i = Shots) <=> (\A i \in BallIds : Balls[i].gene_i = Shots)

\* A bred Generation whose balls have all fired their last shot.
C4_Witness ==
    /\ generation_n = 1
    /\ \A i \in BallIds : Balls[i].gene_i = Shots

\* C5: generation_n is the number of completed Generations: after n calls of
\* Solver.update it is n \div 1263, the calls that return true being the
\* multiples of 1263; and after the first update of a bred Generation every
\* ball has gene_i = 1.
C5_GenerationCount ==
    /\ generation_n = calls \div CompletionCall
    /\ is_done <=> (calls > 0 /\ calls % CompletionCall = 0)
    /\ (generation_n >= 1 /\ call_no = 1) =>
           \A i \in BallIds : Balls[i].gene_i = 1

\* The first update of the Generation bred after exactly 1263 calls.
C5_Witness ==
    /\ calls = CompletionCall + 1
    /\ generation_n = 1
    /\ call_no = 1

\* C6: every ball holds 3 directions of 0..359 and 3 strengths of 65..2300,
\* whatever MUTATION_CHANCE is.
C6_GeneBounds ==
    \A i \in BallIds :
        /\ Len(Balls[i].gene_dir) = Shots
        /\ Len(Balls[i].gene_strength) = Shots
        /\ \A k \in 1..Shots :
               /\ Balls[i].gene_dir[k] \in DirMin..DirMax
               /\ Balls[i].gene_strength[k] \in StrengthMin..StrengthMax

\* A bred ball with a mutated direction beside an inherited strength.
C6_Witness ==
    /\ generation_n >= 1
    /\ MUTATION_CHANCE = 50
    /\ \E i \in BallIds, k \in 1..Shots : gene_src[i][k] = <<"random", "winner">>

\* C7: with MUTATION_CHANCE = 0, next_generation gives every slot of every
\* new ball either the pair that the winner of the completed Generation (by
\* the positions at the completing call) holds in that slot, or a pair drawn
\* afresh within the gene bounds.
C7_Inheritance ==
    [][(generation_n' = generation_n + 1 /\ MUTATION_CHANCE = 0) =>
         LET w == WinnerBall(generation)
         IN  \A i \in 1..Len(generation'.population), k \in 1..Shots :
                 LET b == generation'.population[i]
                 IN  \/ /\ gene_src'[i][k] = <<"winner", "winner">>
                        /\ b.gene_dir[k] = w.gene_dir[k]
                        /\ b.gene_strength[k] = w.gene_strength[k]
                     \/ /\ gene_src'[i][k] = <<"random", "random">>
                        /\ b.gene_dir[k] \in DirMin..DirMax
                        /\ b.gene_strength[k] \in StrengthMin..StrengthMax]_vars

\* Right after next_generation: the winner was not the first ball, its slots
\* differ, and the new balls hold inherited and fresh slots.
C7_Witness ==
    /\ op = "Solver.update"
    /\ is_done
    /\ MUTATION_CHANCE = 0
    /\ winner([population |-> before, last_gene |-> 0]) > 1
    /\ \E i \in BallIds, k \in 1..Shots : gene_src[i][k] = <<"winner", "winner">>
    /\ \E i \in BallIds, k \in 1..Shots : gene_src[i][k] = <<"random", "random">>

\* C8: highest_fitness is the greatest fitness of the population, and winner
\* is the first ball that has it; winner is never None.
C8_Winner ==
    LET h == highest_fitness(generation)
        w == winner(generation)
    IN  /\ \A i \in BallIds : fitness(Balls[i]) <= h
        /\ \E i \in BallIds : fitness(Balls[i]) = h
        /\ w \in BallIds
        /\ fitness(Balls[w]) = h
        /\ \A j \in 1..(w - 1) : fitness(Balls[j]) < h

\* Two balls tie for the highest fitness, below a first ball that is not
\* the winner, in a Generation in flight.
C8_Witness ==
    /\ op = "Solver.update"
    /\ winner(generation) > 1
    /\ \E i, j \in BallIds :
           /\ i < j
           /\ Balls[i].position # Balls[j].position
           /\ fitness(Balls[i]) = highest_fitness(generation)
           /\ fitness(Balls[j]) = highest_fitness(generation)

\* C9: every ball has 0 <= gene_i <= 3, 3 directions and 3 strengths; and
\* apply_gene on a ball whose gene_i is 3 changes nothing, whatever force is
\* pending.
C9_GeneIndex ==
    \A i \in BallIds :
        /\ Balls[i].gene_i \in 0..Shots
        /\ Len(Balls[i].gene_dir) = Shots
        /\ Len(Balls[i].gene_strength) = Shots
        /\ LET used_up == [Balls[i] EXCEPT !.gene_i = Shots]
           IN  apply_gene(used_up) = used_up

\* The balls of a bred Generation have fired their last shot, on the last
\* call before the one that completes it.
C9_Witness ==
    /\ generation_n = 1
    /\ call_no = CompletionCall - 1
    /\ \A i \in BallIds : Balls[i].gene_i = Shots /\ apply_gene(Balls[i]) = Balls[i]

---------------------------------------------------------------------------
(* Properties of one Basketball, under SpecAgent. *)

\* The ball of the scenario: at the launch position, at rest, its current
\* gene (direction 90, strength 1000).
C3_Scenario(ball) ==
    /\ ball.position = Launch
    /\ ball.velocity = Zero
    /\ ball.gene_i < Len(ball.gene_dir)
    /\ ball.gene_dir[ball.gene_i + 1] = 90
    /\ ball.gene_strength[ball.gene_i + 1] = 1000

\* The ball of the scenario after apply_gene.
C3_Shot(ball) ==
    /\ ball.position = Launch
    /\ ball.velocity = Zero
    /\ ball.force = <<0, 1000 * Scale>>

\* C3 as stated: the force is (0, 1000), and the first update leaves
\* velocity.y > 0 and position.y above 6.5.
C3_FirstUpdateFalls ==
    /\ (op = "apply_gene" /\ C3_Scenario(before[1])) =>
           Balls[1].force = <<0, 1000 * Scale>>
    /\ (op = "update" /\ C3_Shot(before[1])) =>
           /\ Balls[1].velocity[2] > 0
           /\ Balls[1].position[2] > Launch[2]

\* C3, amended: the force is (0, 1000), and the first update leaves
\* velocity.y < 0 and position.y below 6.5, the predicted position having
\* crossed the bottom wall.
C3_FirstUpdateBounces ==
    /\ (op = "apply_gene" /\ C3_Scenario(before[1])) =>
           Balls[1].force = <<0, 1000 * Scale>>
    /\ (op = "update" /\ C3_Shot(before[1])) =>
           /\ Balls[1].velocity[2] < 0
           /\ Balls[1].position[2] < Launch[2]

\* The scenario's ball after apply_gene and one update.
C3_Witness ==
    /\ op = "update"
    /\ C3_Shot(before[1])
    /\ calls = 2

---------------------------------------------------------------------------
(* Properties of the shot schedule, under Spec. *)

\* The calls of Generation.update, counted within a Generation, on which a
\* shot is stepped: the first, and those on which the timer overflows
\* before the shots are used up.
ShotCalls == {1} \cup {k * (ShotTicks + 1) : k \in 1..(Shots - 1)}

\* The slot, from 0, of the shot stepped on call c.
ShotOf(c) == c \div (ShotTicks + 1)

\* C11: in every Generation each ball fires its slots 0, 1, 2 in order, each
\* once: the physics step of shot k (calls 1, 421 and 842) runs with the
\* force of the gene the ball holds in slot k, and every other step runs
\* with no force.
C11_ShotsFollowGenes ==
    (op = "Solver.update" /\ ~is_done) =>
        \A i \in BallIds :
            IF call_no \in ShotCalls
            THEN LET k == ShotOf(call_no)
                     shot == [before[i] EXCEPT
                                !.force = GeneForce(Balls[i].gene_dir[k + 1],
                                                    Balls[i].gene_strength[k + 1]),
                                !.gene_i = k + 1]
                 IN  Balls[i] = BallUpdate(shot)
            ELSE /\ before[i].force = Zero
                 /\ Balls[i] = BallUpdate(before[i])

\* C12: the Generation.update call that returns true changes no ball (no
\* gene applied, no physics step) and only resets the timer; in the same
\* Solver.update the new Generation gets no update: its timer is 0 and its
\* balls are at the launch position with zero velocity.
C12_CompletionFrame ==
    [][is_done' =>
          LET u == GenerationUpdate(generation)
          IN  /\ u.is_done
              /\ u.generation.population = generation.population
              /\ u.generation.last_gene = 0
              /\ generation'.last_gene = 0
              /\ \A i \in 1..Len(generation'.population) :
                    /\ generation'.population[i].position = Launch
                    /\ generation'.population[i].velocity = Zero]_vars

C12_Witness ==
    /\ op = "Solver.update"
    /\ is_done
    /\ generation_n = 2
    /\ \E i \in BallIds : /\ before[i].position # Launch
                          /\ before[i].velocity # Zero
                          /\ Balls[i].position = Launch

\* C13: one log entry per completed Generation and none on any other
\* call; the k-th entry (from 0) carries generation number k and the
\* highest fitness of the Generation that completed, taken before
\* next_generation replaces it.
C13_LogPerGeneration ==
    /\ Len(log) = calls \div CompletionCall
    /\ Len(log) = generation_n
    /\ \A k \in 1..Len(log) : log[k][1] = k - 1
    /\ (op = "Solver.update" /\ is_done) =>
           log[Len(log)][2] =
               highest_fitness([population |-> before, last_gene |-> 0])

C13_Witness ==
    /\ op = "Solver.update"
    /\ is_done
    /\ Len(log) = 2
    /\ log[2][1] = 1
    /\ log[2][2] # highest_fitness(generation)
    /\ log[2][2] # log[1][2]

\* C14: within one Generation the timer stays in 0..420 and is reset to 0
\* exactly on calls 421, 842 and 1263; gene_i changes only on call 421
\* (1 to 2) and on call 842 (2 to 3); every call that returns false runs
\* exactly one update of every ball, after the gene application if any.
C14_ShotSchedule ==
    /\ generation.last_gene \in 0..ShotTicks
    /\ op = "Solver.update" =>
          /\ call_no \in 1..CompletionCall
          /\ generation.last_gene = call_no % (ShotTicks + 1)
          /\ generation.last_gene = 0 <=>
                 call_no \in {k * (ShotTicks + 1) : k \in 1..Shots}
          /\ \A i \in BallIds :
                IF is_done
                THEN before[i].gene_i = Shots
                ELSE /\ Balls[i].gene_i =
                           IF call_no = ShotTicks + 1 THEN 2
                           ELSE IF call_no = 2 * (ShotTicks + 1) THEN 3
                           ELSE before[i].gene_i
                     /\ call_no = ShotTicks + 1 => before[i].gene_i = 1
                     /\ call_no = 2 * (ShotTicks + 1) => before[i].gene_i = 2
                     /\ Balls[i] =
                           BallUpdate(IF call_no % (ShotTicks + 1) = 0
                                      THEN apply_gene(before[i])
                                      ELSE before[i])

C14_Witness ==
    /\ op = "Solver.update"
    /\ ~is_done
    /\ generation_n = 1
    /\ call_no = 2 * (ShotTicks + 1)
    /\ generation.last_gene = 0
    /\ \A i \in BallIds : before[i].gene_i = 2 /\ Balls[i].gene_i = 3

\* C15: after every update a ball's force is zero, so after every
\* Generation.update that returns false all forces are zero, and the force
\* an apply_gene sets acts in exactly one physics step, the next one: the
\* steps of calls 1, 421 and 842 run with the pending force, every other
\* step runs with none.
C15_ForceConsumed ==
    (op = "Solver.update" /\ ~is_done) =>
        \A i \in BallIds :
            /\ Balls[i].force = Zero
            /\ IF call_no \in ShotCalls
               THEN LET shot == IF call_no = 1 THEN before[i]
                                ELSE apply_gene(before[i])
                        idle == [shot EXCEPT !.force = Zero]
                    IN  /\ shot.force # Zero
                        /\ Balls[i] = BallUpdate(shot)
                        /\ Balls[i] # BallUpdate(idle)
               ELSE /\ before[i].force = Zero
                    /\ Balls[i] = BallUpdate(before[i])

C15_Witness ==
    /\ op = "Solver.update"
    /\ ~is_done
    /\ generation_n = 1
    /\ call_no = ShotTicks + 2
    /\ \A i \in BallIds : /\ before[i].force = Zero
                          /\ before[i].gene_i = 2
                          /\ Balls[i].force = Zero

---------------------------------------------------------------------------
(* The floor bounce, under SpecAgent. *)

\* A ball with no force, falling straight down, whose predicted position
\* (after the gravity step) crosses the bottom wall and stays clear of
\* the hoop.
C16_Scenario(ball) ==
    /\ ball.force = Zero
    /\ ball.velocity[1] = 0
    /\ ball.velocity[2] > 0
    /\ LET v1 == VAdd(ball.velocity, TimesDt(<<0, GRAVITY>>))
           predicted == VAdd(ball.position, TimesDt(v1))
       IN  /\ predicted[2] + radius > (WINDOW_HEIGHT * Scale) \div UNIT
           /\ Length(VSub(Net(ball.position), predicted)) >
                  radius + (3 * Scale) \div 10

\* C16: for such a ball, with velocity (0, v), update leaves velocity.x = 0
\* and velocity.y = -elasticity * (v + GRAVITY * dt) * (1 - AIR_FRICTION),
\* to the two units that the three roundings of the fixed point allow
\* (the equation is scaled by 18750 = FPS * 10 * 1000 / 32); velocity.y is
\* negative and within one tick's gravity and friction of -elasticity * v
\* (scaled by 10000); the position is integrated with the new velocity.
C16_FloorBounce ==
    (op = "update" /\ C16_Scenario(before[1])) =>
        LET v == before[1].velocity[2]
            vy == Balls[1].velocity[2]
            gdt == Div(GRAVITY, FPS) + 1
        IN  /\ Balls[1].velocity[1] = 0
            /\ Abs(18750 * vy
                   + 31 * elasticity * (FPS * v + GRAVITY)) <= 2 * 18750
            /\ vy < 0
            /\ Abs(10000 * vy + 1000 * elasticity * v) <=
                   1000 * elasticity * gdt
                   + elasticity * AIR_FRICTION * (v + gdt) + 2 * 10000
            /\ Balls[1].position =
                   VAdd(before[1].position, TimesDt(Balls[1].velocity))
            /\ Balls[1].force = Zero

C16_Witness ==
    /\ op = "update"
    /\ C16_Scenario(before[1])
    /\ before[1].velocity = <<0, 3 * Scale>>
    /\ Balls[1].velocity[2] < -2 * Scale

=============================================================================
